---- MODULE Spec2Model ----
(***************************************************************************)
(* Request resolution and redirect state machine of the /x/ module route   *)
(* (src/routes/x/module.tsx): handler.GET, handlerRaw and the not-found    *)
(* branches of the page component.                                         *)
(*                                                                         *)
(* A URL is a record: pathname is a sequence of segments, a segment        *)
(* "oak@v1:12:3" being [t |-> "oak", v |-> "v1", a |-> 12] (text, the part *)
(* after "@", the line of a trailing ":<line>:<col>" reference; a = 0 is   *)
(* no reference, a = -1 a reference that does not parse).  The query is    *)
(* the presence of the flags source and doc and the value of s; hash is    *)
(* <<>> or <<"L", line>>.                                                  *)
(***************************************************************************)
EXTENDS Integers, Sequences, FiniteSets, TLC

VARIABLES req, html, pc, view, res, calls, trace, resp, chain,
          peer, active, RAW_HEADERS

vars == <<req, html, pc, view, res, calls, trace, resp, chain,
          peer, active, RAW_HEADERS>>

\* what is not local to the invocation that is running: the invocation
\* suspended at an await (peer), which of the two is running (active), and
\* the module-level constant of the raw path
shared == <<peer, active, RAW_HEADERS>>

\* ---------------------------------------------------------------- bounds
MaxLine == 2
MaxHops == 2

\* ------------------------------------------------------- value universes
Seg(t, v, a) == [t |-> t, v |-> v, a |-> a]

X == Seg("x", "", 0)

Names == {"std", "oak"}

Versions == {"", "v1"}

Latest == "v2"

Anchors == {-1, 0} \cup (1..MaxLine)

SubPaths ==
  {<<>>} \cup {<<Seg("mod.ts", "", a)>> : a \in Anchors}
         \cup {<<Seg("fmt", "", 0), Seg("testing.ts", "", a)>> : a \in {0, 1}}

CanonicalPath == <<Seg("mod.ts", "", 0)>>

Symbols == {"", "sym"}

NoHash == <<>>

MkURL(p, so, d, s, h) ==
  [pathname |-> p, source |-> so, doc |-> d, s |-> s, hash |-> h]

NoURL == MkURL(<<>>, FALSE, FALSE, "", NoHash)

\* Request URLs routed to the handler: /x/<name>[@<version>]/<path...> and
\* the std alias /std[@<version>]/<path...>.
Pathnames ==
  {<<X, Seg(n, v, 0)>> \o p : n \in Names, v \in Versions, p \in SubPaths}
    \cup {<<Seg("std", v, 0)>> \o p : v \in Versions, p \in SubPaths}
    \cup {<<X, Seg("oak", "", 0), Seg("0.1.0", "", 0)>>,
          <<X, Seg("oak", "0.1.0", 0)>>}

RequestURLs ==
  {MkURL(p, so, d, s, NoHash) :
     p \in Pathnames, so \in BOOLEAN, d \in BOOLEAN, s \in Symbols}

\* ---------------------------------------------------------- route match
\* routeOverride "/x/:name{@:version}?/:path*"
MatchX(p) ==
  [name |-> p[2].t, version |-> p[2].v, path |-> SubSeq(p, 3, Len(p))]

\* the std alias route, mapped to the same handler
MatchStd(p) ==
  [name |-> p[1].t, version |-> p[1].v, path |-> SubSeq(p, 2, Len(p))]

Params(u) ==
  IF u.pathname[1] = X THEN MatchX(u.pathname) ELSE MatchStd(u.pathname)

\* url.pathname.startsWith("/x")
StartsWithX(p) == Len(p) > 0 /\ p[1].t = "x"

\* url.pathname.slice(2)
Slice2(p) == Tail(p)

\* ------------------------------------------------------- registry utils
\* getModulePath(name, version?, path?)
getModulePath(name, version, path) ==
  (IF name = "std" THEN <<>> ELSE <<X>>) \o <<Seg(name, version, 0)>> \o path

\* extractAltLineNumberReference(pathname): null, or {rest, line}
NoLn == [found |-> FALSE, rest |-> <<>>, line |-> 0]

extractAltLineNumberReference(p) ==
  IF Len(p) > 0 /\ p[Len(p)].a > 0
    THEN [found |-> TRUE,
          rest |-> [p EXCEPT ![Len(p)].a = 0],
          line |-> p[Len(p)].a]
    ELSE NoLn

\* ViewOf without the Info view of a request that has no sub-path
ViewOf_NoInfo(u, path) ==
  IF u.source THEN "source"
  ELSE IF u.doc THEN "doc"
  ELSE "doc"

\* ViewOf with the doc flag tested before the source flag
ViewOf_DocFirst(u, path) ==
  IF u.doc THEN "doc"
  ELSE IF u.source THEN "source"
  ELSE IF path = <<>> THEN "info"
  ELSE "doc"

\* ---------------------------------------------------------------- views
ViewOf(u, path) ==
  IF u.source THEN "source"
  ELSE IF u.doc THEN "doc"
  ELSE IF path = <<>> THEN "info"
  ELSE "doc"

\* the upstream URL always built for the latest version
VersionOrLatest_Always(version) == "__latest__"

\* version || "__latest__"
VersionOrLatest(version) == IF version = "" THEN "__latest__" ELSE version

\* the symbol forwarded whatever the view
SymbolFilter_AnyView(u, v) == u.s

\* symbol && view === "doc"
SymbolFilter(u, v) == IF u.s # "" /\ v = "doc" THEN u.s ELSE ""

\* ------------------------------------------------------------ responses
NoRes == [status |-> 0, latest |-> "", newPath |-> <<>>, kind |-> "", readme |-> FALSE]

Kinds ==
  {"no-versions", "invalid-version", "notfound", "dir", "file", "index",
   "module", "modinfo"}

NoResp ==
  [type |-> "none", status |-> 0, loc |-> NoURL, warning |-> "", by |-> "",
   page |-> "", extra |-> ""]

Redirect(status, loc, by, warning) ==
  [type |-> "redirect", status |-> status, loc |-> loc, warning |-> warning,
   by |-> by, page |-> "", extra |-> ""]

\* render(data): the page component's outcome for the data
Render(page, extra) ==
  [type |-> "render", status |-> 200, loc |-> NoURL, warning |-> "",
   by |-> "Render", page |-> page, extra |-> extra]

RawResponse(status, body) ==
  [type |-> "raw", status |-> status, loc |-> NoURL, warning |-> "",
   by |-> "Raw", page |-> body, extra |-> ""]

Thrown ==
  [type |-> "throw", status |-> 500, loc |-> NoURL, warning |-> "",
   by |-> "", page |-> "", extra |-> ""]

Call(api, v, p, symbol) ==
  [api |-> api, view |-> v, name |-> p.name, version |-> p.version,
   path |-> p.path, symbol |-> symbol]

\* const RAW_HEADERS = { "Access-Control-Allow-Origin": "*" }
RawHeaders == [AccessControlAllowOrigin |-> "*"]

\* the locals of an invocation that has not started
Fresh(u, h) ==
  [req |-> u, html |-> h, pc |-> "start", view |-> "none", res |-> NoRes,
   calls |-> <<>>, trace |-> <<>>, resp |-> NoResp]

\* no second invocation
NoPeer == Fresh(NoURL, FALSE)

\* ----------------------------------------------------------------- Init
Init ==
  /\ req \in RequestURLs
  /\ html \in BOOLEAN
  /\ pc = "start"
  /\ view = "none"
  /\ res = NoRes
  /\ calls = <<>>
  /\ trace = <<>>
  /\ resp = NoResp
  /\ chain = <<>>
  /\ peer = NoPeer
  /\ active = 1
  /\ RAW_HEADERS = RawHeaders


\* --------------------------------------------------------- handler.GET
\* StdPrefixApplies tested only for a request that carries a version
StdPrefixApplies_Versioned(u) ==
  Params(u).name = "std" /\ StartsWithX(u.pathname) /\ Params(u).version # ""

\* name === "std" && url.pathname.startsWith("/x")
StdPrefixApplies(u) == Params(u).name = "std" /\ StartsWithX(u.pathname)

StdPrefixRedirect ==
  /\ pc = "start"
  /\ StdPrefixApplies(req)
  /\ resp' = Redirect(301, [req EXCEPT !.pathname = Slice2(@)],
                      "NameNormalization", "")
  /\ trace' = <<"NameNormalization">>
  /\ pc' = "done"
  /\ UNCHANGED <<req, html, view, res, calls, chain>>
  /\ UNCHANGED shared

\* StartRaw looking the version list up before every content fetch
StartRaw_AlwaysVersions ==
  /\ pc = "start"
  /\ ~StdPrefixApplies(req)
  /\ ~html
  /\ trace' = <<"NameNormalization">>
  /\ IF Params(req).version = ""
       THEN /\ calls' = <<Call("versions", "none", Params(req), "")>>
            /\ pc' = "await_versions"
       ELSE /\ calls' = <<Call("versions", "none", Params(req), ""),
                          Call("source", "none", Params(req), "")>>
            /\ pc' = "await_source"
  /\ UNCHANGED <<req, html, view, res, resp, chain>>
  /\ UNCHANGED shared

\* !isHTML: return handlerRaw(req, params)
StartRaw ==
  /\ pc = "start"
  /\ ~StdPrefixApplies(req)
  /\ ~html
  /\ trace' = <<"NameNormalization">>
  /\ IF Params(req).version = ""
       THEN /\ calls' = <<Call("versions", "none", Params(req), "")>>
            /\ pc' = "await_versions"
       ELSE /\ calls' = <<Call("source", "none", Params(req), "")>>
            /\ pc' = "await_source"
  /\ UNCHANGED <<req, html, view, res, resp, chain>>
  /\ UNCHANGED shared

\* StartPage without the content negotiation
StartPage_NoNegotiation ==
  /\ pc = "start"
  /\ ~StdPrefixApplies(req)
  /\ view' = ViewOf(req, Params(req).path)
  /\ calls' = <<Call("page", view',
                     [Params(req) EXCEPT !.version = VersionOrLatest(@)],
                     SymbolFilter(req, view'))>>
  /\ trace' = <<"NameNormalization">>
  /\ pc' = "await_page"
  /\ UNCHANGED <<req, html, res, resp, chain>>
  /\ UNCHANGED shared

\* view classification and the page-metadata fetch
StartPage ==
  /\ pc = "start"
  /\ ~StdPrefixApplies(req)
  /\ html
  /\ view' = ViewOf(req, Params(req).path)
  /\ calls' = <<Call("page", view',
                     [Params(req) EXCEPT !.version = VersionOrLatest(@)],
                     SymbolFilter(req, view'))>>
  /\ trace' = <<"NameNormalization">>
  /\ pc' = "await_page"
  /\ UNCHANGED <<req, html, res, resp, chain>>
  /\ UNCHANGED shared

\* fetch(resURL) rejects
PageFetchFails ==
  /\ pc = "await_page"
  /\ resp' = Thrown
  /\ pc' = "done"
  /\ UNCHANGED <<req, html, view, res, calls, trace, chain>>
  /\ UNCHANGED shared

\* res.status === 404: render(null)
PageNotExists ==
  /\ pc = "await_page"
  /\ res' = [NoRes EXCEPT !.status = 404]
  /\ resp' = Render("null", "")
  /\ trace' = Append(trace, "Render")
  /\ pc' = "done"
  /\ UNCHANGED <<req, html, view, calls, chain>>
  /\ UNCHANGED shared

\* LatestLocation inserting the request's own version
LatestLocation_OwnVersion(u, latest) ==
  MkURL(getModulePath(Params(u).name, Params(u).version, Params(u).path),
        FALSE, FALSE, "", NoHash)

\* the Location of the implicit-latest redirect:
\* new URL(getModulePath(name, latestVersion, path), url)
LatestLocation(u, latest) ==
  MkURL(getModulePath(Params(u).name, latest, Params(u).path),
        FALSE, FALSE, "", NoHash)

\* Response.redirect(url) without a status
DefaultRedirectStatus == 302

\* the implicit-latest redirect made permanent
LatestRedirect_Permanent(u, latest) ==
  Redirect(301, LatestLocation(u, latest), "VersionDefaulting", "")

\* return Response.redirect(new URL(getModulePath(...), url))
LatestRedirect(u, latest) ==
  Redirect(DefaultRedirectStatus, LatestLocation(u, latest),
           "VersionDefaulting", "")

\* res.status === 302: implicit latest
PageImplicitLatest ==
  /\ pc = "await_page"
  /\ res' = [NoRes EXCEPT !.status = 302, !.latest = Latest]
  /\ resp' = LatestRedirect(req, Latest)
  /\ trace' = Append(trace, "VersionDefaulting")
  /\ pc' = "done"
  /\ UNCHANGED <<req, html, view, calls, chain>>
  /\ UNCHANGED shared

\* CanonicalLocation keeping the requested sub-path
CanonicalLocation_OldPath(u, newPath) ==
  MkURL(getModulePath(Params(u).name, Params(u).version, Params(u).path),
        FALSE, FALSE, "", NoHash)

\* Location: getModulePath(name, version, newPath)
CanonicalLocation(u, newPath) ==
  MkURL(getModulePath(Params(u).name, Params(u).version, newPath),
        FALSE, FALSE, "", NoHash)

\* res.status === 301: the path is a directory with an index module
PageCanonicalPath ==
  /\ pc = "await_page"
  /\ res' = [NoRes EXCEPT !.status = 301, !.newPath = CanonicalPath]
  /\ resp' = Redirect(301, CanonicalLocation(req, CanonicalPath),
                      "PathCanonicalization", "")
  /\ trace' = trace \o <<"VersionDefaulting", "PathCanonicalization">>
  /\ pc' = "done"
  /\ UNCHANGED <<req, html, view, calls, chain>>
  /\ UNCHANGED shared

\* any other status: data = { data: await res.json(), view }
BodyStatuses == {200, 500}

\* what res.json() can give: a page of one of the kinds, or some other JSON
\* value (an error body) that has no kind and no upload_options
PageBodies == Kinds \cup {"error"}

\* render(data): TopPanel reads data.upload_options.repository of every
\* page that is not no-versions, invalid-version or modinfo, and throws on
\* a body without upload_options
RenderData(kind, extra) ==
  IF kind = "error" THEN Thrown ELSE Render(kind, extra)

\* res.json() rejects
PageParseFails ==
  /\ pc = "await_page"
  /\ \E st \in BodyStatuses : res' = [NoRes EXCEPT !.status = st, !.kind = "badjson"]
  /\ resp' = Thrown
  /\ trace' = trace \o <<"VersionDefaulting", "PathCanonicalization">>
  /\ pc' = "done"
  /\ UNCHANGED <<req, html, view, calls, chain>>
  /\ UNCHANGED shared

\* Resolve fetching the file of every Source-view page, whatever its kind
Resolve_FileAnyKind(kind, v, readme, ln) ==
  IF kind = "no-versions" THEN "NoVersions"
  ELSE IF v = "doc" /\ kind = "file" THEN "ViewCanonicalization"
  ELSE IF ln.found THEN "AnchorCanonicalization"
  ELSE IF kind = "modinfo" /\ readme THEN "Readme"
  ELSE IF v = "source" THEN "File"
  ELSE "Render"

\* Resolve with the no-versions render after the redirect checks
Resolve_NoVersionsLast(kind, v, readme, ln) ==
  IF v = "doc" /\ kind = "file" THEN "ViewCanonicalization"
  ELSE IF ln.found THEN "AnchorCanonicalization"
  ELSE IF kind = "no-versions" THEN "NoVersions"
  ELSE IF kind = "modinfo" /\ readme THEN "Readme"
  ELSE IF v = "source" /\ kind = "file" THEN "File"
  ELSE "Render"

\* Resolve with the anchor check moved before the view check
Resolve_AnchorFirst(kind, v, readme, ln) ==
  IF kind = "no-versions" THEN "NoVersions"
  ELSE IF ln.found THEN "AnchorCanonicalization"
  ELSE IF v = "doc" /\ kind = "file" THEN "ViewCanonicalization"
  ELSE IF kind = "modinfo" /\ readme THEN "Readme"
  ELSE IF v = "source" /\ kind = "file" THEN "File"
  ELSE "Render"

\* the order of the checks after the body is parsed
Resolve(kind, v, readme, ln) ==
  IF kind = "no-versions" THEN "NoVersions"
  ELSE IF v = "doc" /\ kind = "file" THEN "ViewCanonicalization"
  ELSE IF ln.found THEN "AnchorCanonicalization"
  ELSE IF kind = "modinfo" /\ readme THEN "Readme"
  ELSE IF v = "source" /\ kind = "file" THEN "File"
  ELSE "Render"

\* url.searchParams.set("source", ""); Response.redirect(url, 301)
ViewLocation(u) == [u EXCEPT !.source = TRUE]

\* AnchorLocation leaving the line reference in the path
AnchorLocation_KeepsAnchor(u, ln) ==
  [u EXCEPT !.source = TRUE, !.hash = <<"L", ln.line>>]

\* url.pathname = ln.rest; source set; url.hash = "L" + ln.line
AnchorLocation(u, ln) ==
  [u EXCEPT !.pathname = ln.rest, !.source = TRUE, !.hash = <<"L", ln.line>>]

PageSuccess(st, kind, readme) ==
  LET ln == extractAltLineNumberReference(req.pathname)
      step == Resolve(kind, view, readme, ln)
      p == Params(req)
      ran == trace \o <<"VersionDefaulting", "PathCanonicalization">>
  IN
  /\ pc = "await_page"
  /\ res' = [NoRes EXCEPT !.status = st, !.kind = kind, !.readme = readme]
  /\ CASE step = "NoVersions" ->
            /\ resp' = Render(kind, "")
            /\ trace' = ran \o <<"Render">>
            /\ pc' = "done"
            /\ calls' = calls
       [] step = "ViewCanonicalization" ->
            /\ resp' = Redirect(301, ViewLocation(req), step, "")
            /\ trace' = ran \o <<"ViewCanonicalization">>
            /\ pc' = "done"
            /\ calls' = calls
       [] step = "AnchorCanonicalization" ->
            /\ resp' = Redirect(302, AnchorLocation(req, ln), step, "")
            /\ trace' = ran \o <<"ViewCanonicalization", "AnchorCanonicalization">>
            /\ pc' = "done"
            /\ calls' = calls
       [] step = "Readme" ->
            /\ resp' = resp
            /\ trace' = ran \o <<"ViewCanonicalization", "AnchorCanonicalization">>
            /\ pc' = "await_readme"
            /\ calls' = Append(calls, Call("readme", view, p, ""))
       [] step = "File" ->
            /\ resp' = resp
            /\ trace' = ran \o <<"ViewCanonicalization", "AnchorCanonicalization">>
            /\ pc' = "await_file"
            /\ calls' = Append(calls, Call("rawfile", view, p, ""))
       [] OTHER ->
            /\ resp' = RenderData(kind, "")
            /\ trace' = ran \o <<"ViewCanonicalization", "AnchorCanonicalization", "Render">>
            /\ pc' = "done"
            /\ calls' = calls
  /\ UNCHANGED <<req, html, view, chain>>
  /\ UNCHANGED shared

\* what the rendered page shows for the data: Registry, ModuleView,
\* SourceView and InfoView
PageShows(v, page, extra) ==
  IF page = "null" THEN "404 - Not Found: This module does not exist."
  ELSE IF page = "no-versions" THEN "No uploaded versions"
  ELSE IF page = "invalid-version"
    THEN "404 - Not Found: This version does not exist for this module."
  ELSE IF page = "notfound"
    THEN "404 - Not Found: This file or directory could not be found."
  ELSE IF v = "info"
    THEN (IF extra = "readme" THEN "readme" ELSE "No readme found.")
  ELSE IF v = "source"
    THEN (IF page = "dir" THEN "directory listing"
          ELSE IF extra = "fileerror" THEN "file error message"
          ELSE "file display")
  ELSE "documentation"

\* getReadme(name, version, readme): the readme file, or nothing
getReadme(ok) == IF ok THEN "readme" ELSE "noreadme"

\* getRawFile(name, version, path): the file, or an Error value
getRawFile(ok) == IF ok THEN "file" ELSE "fileerror"

\* data.data.readmeFile = await getReadme(...); render(data)
ReadmeReturns(ok) ==
  /\ pc = "await_readme"
  /\ resp' = Render(res.kind, getReadme(ok))
  /\ trace' = Append(trace, "Render")
  /\ pc' = "done"
  /\ UNCHANGED <<req, html, view, res, calls, chain>>
  /\ UNCHANGED shared

\* FileReturns letting the failure of the content fetch propagate
FileReturns_Throws(ok) ==
  /\ pc = "await_file"
  /\ resp' = IF ok THEN Render(res.kind, getRawFile(ok)) ELSE Thrown
  /\ trace' = Append(trace, "Render")
  /\ pc' = "done"
  /\ UNCHANGED <<req, html, view, res, calls, chain>>
  /\ UNCHANGED shared

\* data.data.file = await getRawFile(...); render(data)
FileReturns(ok) ==
  /\ pc = "await_file"
  /\ resp' = Render(res.kind, getRawFile(ok))
  /\ trace' = Append(trace, "Render")
  /\ pc' = "done"
  /\ UNCHANGED <<req, html, view, res, calls, chain>>
  /\ UNCHANGED shared

\* ----------------------------------------------------------- handlerRaw
\* getVersionList(name) rejects
VersionsFails ==
  /\ pc = "await_versions"
  /\ resp' = Thrown
  /\ pc' = "done"
  /\ UNCHANGED <<req, html, view, res, calls, trace, chain>>
  /\ UNCHANGED shared

\* versions === null
VersionsNull ==
  /\ pc = "await_versions"
  /\ res' = [NoRes EXCEPT !.kind = "versions-null"]
  /\ resp' = RawResponse(404, "does not exist")
  /\ pc' = "done"
  /\ UNCHANGED <<req, html, view, calls, trace, chain>>
  /\ UNCHANGED shared

\* versions.latest === null
VersionsNoLatest ==
  /\ pc = "await_versions"
  /\ res' = [NoRes EXCEPT !.kind = "latest-null"]
  /\ resp' = RawResponse(404, "no latest version")
  /\ pc' = "done"
  /\ UNCHANGED <<req, html, view, calls, trace, chain>>
  /\ UNCHANGED shared

\* RawLatestLocation without the sub-path
RawLatestLocation_NoPath(u, latest) ==
  MkURL(getModulePath(Params(u).name, latest, <<>>), FALSE, FALSE, "", NoHash)

\* Location: getModulePath(name, versions.latest, path)
RawLatestLocation(u, latest) ==
  MkURL(getModulePath(Params(u).name, latest, Params(u).path),
        FALSE, FALSE, "", NoHash)

\* 302 with x-deno-warning
VersionsLatest ==
  /\ pc = "await_versions"
  /\ res' = [NoRes EXCEPT !.kind = "versions", !.latest = Latest]
  /\ resp' = Redirect(302, RawLatestLocation(req, Latest),
                      "RawVersionDefaulting", Latest)
  /\ pc' = "done"
  /\ UNCHANGED <<req, html, view, calls, trace, chain>>
  /\ UNCHANGED shared

\* fetchSource(name, version, path) rejects
SourceFails ==
  /\ pc = "await_source"
  /\ resp' = Thrown
  /\ pc' = "done"
  /\ UNCHANGED <<req, html, view, res, calls, trace, chain>>
  /\ UNCHANGED shared

\* fetchSource(name, version, path): the content source's response
fetchSource(st) == RawResponse(st, IF st = 200 THEN "bytes" ELSE "not found")

SourceReturns(st) ==
  /\ pc = "await_source"
  /\ resp' = fetchSource(st)
  /\ pc' = "done"
  /\ UNCHANGED <<req, html, view, res, calls, trace, chain>>
  /\ UNCHANGED shared

\* --------------------------------------------------------------- client
\* the client requests the Location of a redirect response
Follow ==
  /\ pc = "done"
  /\ resp.type = "redirect"
  /\ Len(chain) < MaxHops
  /\ req' = [resp.loc EXCEPT !.hash = NoHash]
  /\ chain' = Append(chain, resp.by)
  /\ pc' = "start"
  /\ view' = "none"
  /\ res' = NoRes
  /\ calls' = <<>>
  /\ trace' = <<>>
  /\ resp' = NoResp
  /\ UNCHANGED html
  /\ UNCHANGED shared

Next ==
  \/ StdPrefixRedirect
  \/ StartRaw
  \/ StartPage
  \/ PageFetchFails
  \/ PageNotExists
  \/ PageImplicitLatest
  \/ PageCanonicalPath
  \/ PageParseFails
  \/ \E st \in BodyStatuses, kind \in PageBodies, readme \in BOOLEAN :
       PageSuccess(st, kind, readme)
  \/ \E ok \in BOOLEAN : ReadmeReturns(ok)
  \/ \E ok \in BOOLEAN : FileReturns(ok)
  \/ VersionsFails
  \/ VersionsNull
  \/ VersionsNoLatest
  \/ VersionsLatest
  \/ SourceFails
  \/ \E st \in {200, 404} : SourceReturns(st)
  \/ Follow

Spec == Init /\ [][Next]_vars

\* ------------------------------------------- a well-behaved upstream
\* upstream signals ImplicitLatest only for the latest sentinel
ChainImplicitLatest ==
  /\ Params(req).version = ""
  /\ PageImplicitLatest

\* upstream signals no canonical path for the canonical path
ChainCanonicalPath ==
  /\ Params(req).path # CanonicalPath
  /\ PageCanonicalPath

NextChain ==
  \/ StdPrefixRedirect
  \/ StartRaw
  \/ StartPage
  \/ PageFetchFails
  \/ PageNotExists
  \/ ChainImplicitLatest
  \/ ChainCanonicalPath
  \/ PageParseFails
  \/ \E st \in BodyStatuses, kind \in PageBodies, readme \in BOOLEAN :
       PageSuccess(st, kind, readme)
  \/ \E ok \in BOOLEAN : ReadmeReturns(ok)
  \/ \E ok \in BOOLEAN : FileReturns(ok)
  \/ VersionsFails
  \/ VersionsNull
  \/ VersionsNoLatest
  \/ VersionsLatest
  \/ SourceFails
  \/ \E st \in {200, 404} : SourceReturns(st)
  \/ Follow

SpecChain == Init /\ [][NextChain]_vars

\* ------------------------------------------------ two requests in flight
\* the requests of the two invocations
ConcURLs ==
  {MkURL(<<X, Seg("oak", "", 0)>>, FALSE, FALSE, "", NoHash),
   MkURL(<<X, Seg("oak", "v1", 0), Seg("mod.ts", "", 1)>>,
         FALSE, FALSE, "sym", NoHash),
   MkURL(<<X, Seg("oak", "v1", 0), Seg("mod.ts", "", 0)>>,
         TRUE, FALSE, "", NoHash),
   MkURL(<<X, Seg("std", "v1", 0)>>, FALSE, TRUE, "", NoHash)}

InitConc ==
  /\ req \in ConcURLs
  /\ html \in BOOLEAN
  /\ pc = "start"
  /\ view = "none"
  /\ res = NoRes
  /\ calls = <<>>
  /\ trace = <<>>
  /\ resp = NoResp
  /\ chain = <<>>
  /\ peer \in {Fresh(u, h) : u \in ConcURLs, h \in BOOLEAN}
  /\ active = 1
  /\ RAW_HEADERS = RawHeaders

\* the locals of the running invocation
Locals ==
  [req |-> req, html |-> html, pc |-> pc, view |-> view, res |-> res,
   calls |-> calls, trace |-> trace, resp |-> resp]

\* view declared at module level: the resumed invocation reads what the
\* other one assigned
LocalView_ModuleLevel(current, saved) == current

\* let view: a local of the invocation, the resumed invocation reads its own
LocalView(current, saved) == saved

\* the running invocation is suspended (at an await, before its start or
\* after its return) and the other one runs
Swap ==
  /\ peer' = Locals
  /\ req' = peer.req
  /\ html' = peer.html
  /\ pc' = peer.pc
  /\ view' = LocalView(view, peer.view)
  /\ res' = peer.res
  /\ calls' = peer.calls
  /\ trace' = peer.trace
  /\ resp' = peer.resp
  /\ active' = 3 - active
  /\ UNCHANGED <<chain, RAW_HEADERS>>

NextConc ==
  \/ StdPrefixRedirect
  \/ StartRaw
  \/ StartPage
  \/ PageFetchFails
  \/ PageNotExists
  \/ PageImplicitLatest
  \/ PageCanonicalPath
  \/ PageParseFails
  \/ \E st \in BodyStatuses, kind \in PageBodies, readme \in BOOLEAN :
       PageSuccess(st, kind, readme)
  \/ \E ok \in BOOLEAN : ReadmeReturns(ok)
  \/ \E ok \in BOOLEAN : FileReturns(ok)
  \/ VersionsFails
  \/ VersionsNull
  \/ VersionsNoLatest
  \/ VersionsLatest
  \/ SourceFails
  \/ \E st \in {200, 404} : SourceReturns(st)
  \/ Swap

SpecConc == InitConc /\ [][NextConc]_vars

TypeOK ==
  /\ pc \in {"start", "await_page", "await_versions", "await_source",
             "await_readme", "await_file", "done"}
  /\ view \in {"none", "doc", "source", "info"}
  /\ resp.type \in {"none", "redirect", "render", "raw", "throw"}
  /\ Len(chain) <= MaxHops


\* ------------------------------------------------------------ properties
Order ==
  <<"NameNormalization", "VersionDefaulting", "PathCanonicalization",
    "ViewCanonicalization", "AnchorCanonicalization", "Render">>

Pos(c) == CHOOSE i \in 1..Len(Order) : Order[i] = c

Done == pc = "done"

Routed == ~StdPrefixApplies(req)

Parsed == res.kind \in Kinds

LastSeg(u) == u.pathname[Len(u.pathname)]

\* whether a check of the fixed order applies to the request, given the
\* upstream answer
Applies(c) ==
  CASE c = "NameNormalization" -> StdPrefixApplies(req)
    [] c = "VersionDefaulting" -> res.status = 302
    [] c = "PathCanonicalization" -> res.status = 301
    [] c = "ViewCanonicalization" ->
         Parsed /\ ViewOf(req, Params(req).path) = "doc" /\ res.kind = "file"
    [] c = "AnchorCanonicalization" -> LastSeg(req).a > 0
    [] OTHER -> TRUE

Enriched == \E i \in 1..Len(calls) : calls[i].api \in {"readme", "rawfile"}

\* C1: the checks of a request run in the fixed order NameNormalization,
\* VersionDefaulting, PathCanonicalization, ViewCanonicalization,
\* AnchorCanonicalization, Render; a redirect is emitted by the first check
\* that applies, it is the last check run, and with it the request is over:
\* no enrichment fetch, no render.
C1_FixedOrder ==
  /\ \A i, j \in 1..Len(trace) : i < j => Pos(trace[i]) < Pos(trace[j])
  /\ (resp.type = "redirect" /\ resp.by # "RawVersionDefaulting") =>
       /\ Done
       /\ trace[Len(trace)] = resp.by
       /\ Applies(resp.by)
       /\ \A i \in 1..(Len(trace) - 1) : ~Applies(trace[i])
       /\ ~Enriched
  /\ resp.type = "redirect" => Done /\ ~Enriched /\ "Render" \notin {trace[i] : i \in 1..Len(trace)}
  /\ resp.type = "render" =>
       \A i \in 1..(Len(trace) - 1) : ~Applies(trace[i])

\* a file documented at a path with a line reference: the view check and the
\* anchor check both apply, and the view check emitted the redirect
C1_Witness ==
  /\ Done
  /\ resp.by = "ViewCanonicalization"
  /\ Applies("AnchorCanonicalization")


VersionQualified(u) == Params(u).version # ""

\* C2 as stated: every request without a version, whatever upstream
\* answers, ends in a redirect to a version-qualified URL.
C2_Original ==
  (Done /\ Params(req).version = "" /\ resp.type # "throw") =>
    resp.type = "redirect" /\ VersionQualified(resp.loc)

\* C2: a request without a version (not the legacy /x/std form) for which
\* upstream resolves a latest version -- ImplicitLatest on the rendered
\* path, a version list with a latest version on the raw path -- ends in a
\* redirect to the URL qualified with that version, never in a rendered page.
C2_VersionlessRedirects ==
  (Done /\ Routed /\ Params(req).version = ""
     /\ (res.status = 302 \/ res.kind = "versions")) =>
    /\ resp.type = "redirect"
    /\ VersionQualified(resp.loc)
    /\ Params(resp.loc).version = res.latest

C2_Witness ==
  /\ Done /\ Routed /\ Params(req).version = ""
  /\ res.status = 302
  /\ resp.type = "redirect"
  /\ Params(resp.loc).version = Latest

C4_Original ==
  (Done /\ resp.by = "VersionDefaulting") =>
    /\ Params(resp.loc).name = Params(req).name
    /\ Params(resp.loc).path = Params(req).path
    /\ resp.loc.source = req.source
    /\ resp.loc.doc = req.doc
    /\ resp.loc.s = req.s

RawOutput ==
  \/ resp.type = "raw"
  \/ resp.type = "throw"
  \/ resp.type = "redirect" /\ resp.by = "RawVersionDefaulting"

NoPageCalls ==
  \A i \in 1..Len(calls) : calls[i].api \in {"versions", "source"}

\* C5 as stated: every non-HTML request, the legacy /x/std form included,
\* gets the raw fast path's output.
C5_Original ==
  (Done /\ ~html) => RawOutput /\ NoPageCalls

\* C5: every non-HTML request other than the legacy /x/std form (which is
\* redirected before the negotiation) gets exactly the raw fast path's
\* output: no view is classified, no page-metadata or enrichment call is
\* made, and the first upstream call is already the raw path's.
C5_RawOnly ==
  (~html /\ Routed) =>
    /\ view = "none"
    /\ NoPageCalls
    /\ pc \in {"start", "await_versions", "await_source", "done"}
    /\ Done => RawOutput

C5_Witness ==
  /\ Done /\ ~html /\ Routed
  /\ resp.type = "raw" /\ resp.status = 200
  /\ Len(calls) = 1


\* C6: a finished raw fast-path request has made exactly one upstream call:
\* the version-list lookup when the version is empty, the content fetch when
\* it is present; never both, never a page-metadata lookup.
C6_OneRawCall ==
  (~html /\ Routed /\ pc # "start") =>
    /\ Len(calls) = 1
    /\ calls[1].api = (IF Params(req).version = "" THEN "versions" ELSE "source")
    /\ calls[1].name = Params(req).name

C6_Witness ==
  /\ Done /\ ~html /\ Routed
  /\ Params(req).version = "v1"
  /\ calls[1].api = "source"
  /\ resp.type = "raw"

\* C7: on the raw fast path with an empty version, no version-list entry
\* gives 404, no latest version gives 404, and otherwise the response is a
\* 302 to the raw URL of the same name and sub-path qualified with the
\* latest version, with a warning header naming that version; no other
\* response of the raw path carries the warning header.
C7_RawVersionDefault ==
  (Done /\ ~html /\ Routed) =>
    /\ (Params(req).version = "" /\ res.kind \in {"versions-null", "latest-null"}) =>
         resp.type = "raw" /\ resp.status = 404 /\ resp.warning = ""
    /\ (Params(req).version = "" /\ res.kind = "versions") =>
         /\ resp.type = "redirect" /\ resp.status = 302
         /\ resp.loc = MkURL(getModulePath(Params(req).name, res.latest,
                                           Params(req).path),
                             FALSE, FALSE, "", NoHash)
         /\ resp.warning = res.latest
         /\ resp.warning # ""
    /\ resp.warning # "" =>
         resp.type = "redirect" /\ resp.status = 302 /\ Params(req).version = ""
    /\ Params(req).version # "" => resp.warning = "" /\ resp.type # "redirect"

\* scenario C: the 302 with the warning, followed, then the 200 without it
C7_Witness ==
  /\ Done /\ ~html
  /\ chain = <<"RawVersionDefaulting">>
  /\ req.pathname = <<X, Seg("oak", Latest, 0), Seg("mod.ts", "", 0)>>
  /\ resp.type = "raw" /\ resp.status = 200 /\ resp.warning = ""

\* C8: a Doc-view request whose page kind is File is answered with one 301
\* whose target is the request URL with the source flag added (path, other
\* query flags and fragment as they were); the target classifies as Source
\* view, so the request that follows a view redirect is never answered with
\* the view redirect again, also with the doc flag still in the query.
C8_ViewRedirect ==
  /\ (Done /\ html /\ Routed /\ Parsed /\ view = "doc" /\ res.kind = "file") =>
       /\ resp.type = "redirect" /\ resp.status = 301
       /\ resp.loc = [req EXCEPT !.source = TRUE]
       /\ resp.loc.pathname = req.pathname /\ resp.loc.hash = req.hash
       /\ ViewOf(resp.loc, Params(resp.loc).path) = "source"
  /\ (Len(chain) > 0 /\ chain[Len(chain)] = "ViewCanonicalization") =>
       /\ view \in {"none", "source"}
       /\ resp.by # "ViewCanonicalization"

\* the target of a view redirect, doc flag still set, resolved to a File again
C8_Witness ==
  /\ Len(chain) > 0 /\ chain[Len(chain)] = "ViewCanonicalization"
  /\ req.doc /\ req.source
  /\ html /\ res.kind = "file"
  /\ pc \in {"await_file", "done"}

\* C9: when the handler gets as far as the anchor check (upstream answered
\* with a page other than NoVersions and the view check did not apply) and
\* the path ends in a parseable line reference, the response is a 302 whose
\* target has the reference stripped from the path, the source flag set and
\* the fragment L<line>; a reference that does not parse is treated as
\* absent: the request goes on to enrichment and render, with no redirect
\* and no error.
C9_AnchorRedirect ==
  (html /\ Routed /\ Parsed /\ res.kind # "no-versions"
     /\ ~(view = "doc" /\ res.kind = "file")) =>
    /\ LastSeg(req).a > 0 =>
         /\ Done
         /\ resp.type = "redirect" /\ resp.status = 302
         /\ resp.loc.pathname =
              [req.pathname EXCEPT ![Len(req.pathname)].a = 0]
         /\ resp.loc.source
         /\ resp.loc.hash = <<"L", LastSeg(req).a>>
         /\ resp.loc.doc = req.doc /\ resp.loc.s = req.s
    /\ LastSeg(req).a = -1 =>
         /\ resp.type \in {"none", "render"}
         /\ Done => resp.type = "render"

C9_Witness ==
  /\ Done /\ html
  /\ LastSeg(req).a = MaxLine
  /\ resp.by = "AnchorCanonicalization"
  /\ resp.loc.hash = <<"L", MaxLine>>

C9_WitnessMalformed ==
  /\ Done /\ html /\ Parsed
  /\ LastSeg(req).a = -1
  /\ resp.type = "render"

\* C10 as stated: the CanonicalPathRedirect target keeps name and version,
\* takes the canonical sub-path, and is always version-qualified.
C10_Original ==
  (Done /\ res.status = 301) =>
    /\ resp.type = "redirect" /\ resp.status = 301
    /\ Params(resp.loc).name = Params(req).name
    /\ Params(resp.loc).version = Params(req).version
    /\ Params(resp.loc).path = res.newPath
    /\ VersionQualified(resp.loc)

\* C10: CanonicalPathRedirect is answered with a 301 whose Location keeps
\* the request's module name and version and has the canonical sub-path
\* supplied by upstream in place of the requested one; the target is
\* version-qualified exactly when the request carried a version.
C10_CanonicalPath ==
  (Done /\ res.status = 301) =>
    /\ resp.type = "redirect" /\ resp.status = 301
    /\ Params(resp.loc).name = Params(req).name
    /\ Params(resp.loc).version = Params(req).version
    /\ Params(resp.loc).path = res.newPath
    /\ VersionQualified(resp.loc) <=> Params(req).version # ""

C10_Witness ==
  /\ Done /\ res.status = 301
  /\ Params(req).version = "v1"
  /\ Params(req).path = <<Seg("fmt", "", 0), Seg("testing.ts", "", 0)>>
  /\ resp.loc.pathname = <<X, Seg("oak", "v1", 0)>> \o CanonicalPath


NotFoundTitles ==
  {"404 - Not Found: This module does not exist.",
   "404 - Not Found: This version does not exist for this module.",
   "404 - Not Found: This file or directory could not be found."}

\* the module, version or path is absent
Absent ==
  \/ html /\ Routed /\ res.status = 404
  \/ html /\ Routed /\ res.kind \in {"invalid-version", "notfound"}
  \/ ~html /\ Routed /\ res.kind \in {"versions-null", "latest-null"}

\* C11: whenever the module, version or path is absent (upstream NotExists,
\* an InvalidVersion or NotFound page, a raw-path missing module or missing
\* latest version), the response is a terminal not-found outcome with HTTP
\* status 404 and a descriptive message, never a redirect, and the upstream
\* call is not repeated.
C11_Original ==
  (Done /\ Absent) =>
    /\ resp.type \in {"render", "raw"}
    /\ resp.status = 404
    /\ resp.type = "render" =>
         PageShows(view, resp.page, resp.extra) \in NotFoundTitles
    /\ Len(calls) = 1


NotFoundRender ==
  resp.type = "render" /\ resp.page \in {"null", "invalid-version", "notfound"}

\* C12: a request makes at most two upstream calls, one after the other:
\* the metadata or content fetch, then possibly one enrichment fetch, which
\* is issued only once the first call has returned a page and only when no
\* redirect is emitted; a request that ends in a redirect or in a not-found
\* render has made at most one upstream call.
C12_AtMostTwoCalls ==
  /\ Len(calls) <= 2
  /\ Len(calls) >= 1 => calls[1].api \in {"page", "versions", "source"}
  /\ Len(calls) = 2 =>
       /\ calls[1].api = "page"
       /\ calls[2].api \in {"readme", "rawfile"}
       /\ Parsed
       /\ resp.type # "redirect"
       /\ pc \in {"await_readme", "await_file", "done"}
  /\ pc \in {"await_page", "await_versions", "await_source"} => Len(calls) = 1
  /\ (Done /\ (resp.type = "redirect" \/ NotFoundRender)) => Len(calls) <= 1

\* a not-found page in Source view: one call, no file fetch
C12_Witness ==
  /\ Done /\ view = "source"
  /\ resp.type = "render" /\ resp.page = "notfound"
  /\ Len(calls) = 1

\* C13: when the enrichment fetch fails after a successful primary
\* resolution the request still ends in a rendered page: for a Source-view
\* File the failure is attached as the file and shown as the file's error
\* message, for an Info-view ModuleInfo the page shows the absent-readme
\* placeholder; the request never fails for it.
C13_EnrichmentFailure ==
  (Done /\ Len(calls) = 2) =>
    /\ resp.type = "render"
    /\ resp.page = res.kind
    /\ calls[2].api = "rawfile" =>
         /\ view = "source" /\ resp.page = "file"
         /\ resp.extra \in {"file", "fileerror"}
         /\ resp.extra = "fileerror" =>
              PageShows(view, resp.page, resp.extra) = "file error message"
    /\ calls[2].api = "readme" =>
         /\ resp.page = "modinfo"
         /\ resp.extra \in {"readme", "noreadme"}
         /\ (resp.extra = "noreadme" /\ view = "info") =>
              PageShows(view, resp.page, resp.extra) = "No readme found."

C13_Witness ==
  /\ Done /\ view = "source"
  /\ calls[Len(calls)].api = "rawfile"
  /\ resp.type = "render" /\ resp.extra = "fileerror"


\* the primary call of a rendered-path request failed: the fetch rejected,
\* the body did not parse, or the status is none of 200, 301, 302, 404
PrimaryFailed ==
  /\ html /\ Routed /\ Done
  /\ res.status \notin {200, 301, 302, 404} \/ res.kind = "badjson"

\* C14: a transport or parse failure of the primary upstream call, an
\* upstream status other than 200/301/302/404 included, is fatal for the
\* request: it ends in a failure, with no redirect and no rendered content,
\* and the call is not repeated.
C14_Original ==
  /\ PrimaryFailed => resp.type = "throw" /\ Len(calls) = 1
  /\ (Done /\ ~html /\ Routed /\ resp.type = "throw") => Len(calls) = 1


\* C15: the view of a rendered-path request depends on the query flags and
\* on the presence of a sub-path only: source gives Source (also with doc),
\* else doc gives Doc, else no sub-path gives Info, else Doc; it is decided
\* before the upstream call, and the view sent upstream is the view the
\* checks and the render use.
C15_ViewClassification ==
  (html /\ Routed /\ pc # "start") =>
    /\ req.source => view = "source"
    /\ (~req.source /\ req.doc) => view = "doc"
    /\ (~req.source /\ ~req.doc /\ Params(req).path = <<>>) => view = "info"
    /\ (~req.source /\ ~req.doc /\ Params(req).path # <<>>) => view = "doc"
    /\ calls[1].api = "page" /\ calls[1].view = view
    /\ resp.by = "ViewCanonicalization" => view = "doc"
    /\ (Len(calls) = 2 /\ calls[2].api = "rawfile") => view = "source"

C15_Witness ==
  /\ Done /\ html
  /\ req.source /\ req.doc /\ Params(req).path = <<>>
  /\ view = "source"
  /\ resp.type = "render"

\* C16: a request for std whose path still carries the /x prefix is
\* answered 301 to the same URL with only the /x segment removed (rest of
\* the path and the query as they were), before anything else: no upstream
\* call is made, with or without a version, HTML or not.
C16_StdPrefix ==
  (req.pathname[1] = X /\ req.pathname[2].t = "std" /\ pc # "start") =>
    /\ Done
    /\ resp.type = "redirect" /\ resp.status = 301
    /\ resp.loc.pathname = SubSeq(req.pathname, 2, Len(req.pathname))
    /\ resp.loc.source = req.source
    /\ resp.loc.doc = req.doc
    /\ resp.loc.s = req.s
    /\ calls = <<>>
    /\ view = "none"

C16_Witness ==
  /\ Done
  /\ req.pathname = <<X, Seg("std", "", 0), Seg("fmt", "", 0), Seg("testing.ts", "", 0)>>
  /\ resp.by = "NameNormalization"
  /\ resp.loc.pathname = <<Seg("std", "", 0), Seg("fmt", "", 0), Seg("testing.ts", "", 0)>>

\* C17: when upstream returns the NoVersions page the request ends in the
\* rendered informational page -- not a not-found page, not a failure, not
\* a redirect -- whatever the view, the query flags or a line reference in
\* the path, and no enrichment fetch is made.
C17_NoVersions ==
  (html /\ Routed /\ res.kind = "no-versions") =>
    /\ Done
    /\ resp.type = "render"
    /\ resp.page = "no-versions"
    /\ PageShows(view, resp.page, resp.extra) = "No uploaded versions"
    /\ PageShows(view, resp.page, resp.extra) \notin NotFoundTitles
    /\ Len(calls) = 1

C17_Witness ==
  /\ Done /\ html
  /\ res.kind = "no-versions"
  /\ LastSeg(req).a > 0
  /\ view = "doc"
  /\ resp.type = "render"


NoFlags == ~req.source /\ ~req.doc /\ req.s = ""

\* C18 as stated: /x/oak/0.1.0 is module oak at version 0.1.0 with no
\* sub-path, in the Info view.
C18_Original ==
  (req.pathname = <<X, Seg("oak", "", 0), Seg("0.1.0", "", 0)>>
     /\ html /\ NoFlags /\ pc # "start") =>
    /\ Params(req) = [name |-> "oak", version |-> "0.1.0", path |-> <<>>]
    /\ view = "info"

\* C18: /x/oak@0.1.0 with HTML accept and no query flags is module oak at
\* version 0.1.0 with no sub-path, is classified as the Info view, is looked
\* up upstream at that version, and on a ModuleInfo success is rendered
\* without a redirect.
C18_ScenarioA ==
  (req.pathname = <<X, Seg("oak", "0.1.0", 0)>>
     /\ html /\ NoFlags /\ pc # "start") =>
    /\ Params(req) = [name |-> "oak", version |-> "0.1.0", path |-> <<>>]
    /\ view = "info"
    /\ calls[1] = Call("page", "info", Params(req), "")
    /\ (Done /\ res.status = 200 /\ res.kind = "modinfo") =>
         /\ resp.type = "render"
         /\ resp.page = "modinfo"
         /\ PageShows(view, resp.page, resp.extra) \in
              {"readme", "No readme found."}

C18_Witness ==
  /\ Done /\ html /\ NoFlags /\ chain = <<>>
  /\ req.pathname = <<X, Seg("oak", "0.1.0", 0)>>
  /\ res.kind = "modinfo"
  /\ resp.type = "render" /\ resp.extra = "readme"


\* the causes of the redirects of the chain, the pending one included
Causes == chain \o (IF resp.type = "redirect" THEN <<resp.by>> ELSE <<>>)

\* C19: in the chain of requests of a client that follows the redirects,
\* with upstream signalling ImplicitLatest only for the latest sentinel and
\* no canonical path for a canonical path, no redirect cause fires twice.
C19_Original ==
  \A i, j \in 1..Len(Causes) : i < j => Causes[i] # Causes[j]


\* the responses of a request u (h: HTML accepted) run alone when upstream
\* answers the primary call with r
Alone(u, h, r) ==
  LET p == Params(u)
      v == ViewOf(u, p.path)
      ln == extractAltLineNumberReference(u.pathname)
      step == Resolve(r.kind, v, r.readme, ln)
  IN
  IF StdPrefixApplies(u)
    THEN {Redirect(301, [u EXCEPT !.pathname = Slice2(@)],
                   "NameNormalization", "")}
  ELSE IF ~h
    THEN IF p.version = ""
           THEN CASE r.kind = "versions-null" ->
                       {RawResponse(404, "does not exist")}
                  [] r.kind = "latest-null" ->
                       {RawResponse(404, "no latest version")}
                  [] r.kind = "versions" ->
                       {Redirect(302, RawLatestLocation(u, r.latest),
                                 "RawVersionDefaulting", r.latest)}
                  [] OTHER -> {Thrown}
           ELSE {fetchSource(200), fetchSource(404), Thrown}
  ELSE CASE r.status = 0 -> {Thrown}
         [] r.status = 404 -> {Render("null", "")}
         [] r.status = 302 -> {LatestRedirect(u, r.latest)}
         [] r.status = 301 ->
              {Redirect(301, CanonicalLocation(u, r.newPath),
                        "PathCanonicalization", "")}
         [] r.kind = "badjson" -> {Thrown}
         [] OTHER ->
              CASE step = "NoVersions" -> {Render(r.kind, "")}
                [] step = "ViewCanonicalization" ->
                     {Redirect(301, ViewLocation(u), step, "")}
                [] step = "AnchorCanonicalization" ->
                     {Redirect(302, AnchorLocation(u, ln), step, "")}
                [] step = "Readme" ->
                     {Render(r.kind, getReadme(ok)) : ok \in BOOLEAN}
                [] step = "File" ->
                     {Render(r.kind, getRawFile(ok)) : ok \in BOOLEAN}
                [] OTHER -> {RenderData(r.kind, "")}

\* a request run alone gets a response of Alone
AloneIsSolo == Done => resp \in Alone(req, html, res)

\* C20: whatever the interleaving of two requests in flight, the response
\* of each is one the same request gets when it runs alone against the same
\* upstream answer, and the module-level RAW_HEADERS never changes.
C20_Isolation ==
  /\ RAW_HEADERS = RawHeaders
  /\ Done => resp \in Alone(req, html, res)
  /\ peer.pc = "done" => peer.resp \in Alone(peer.req, peer.html, peer.res)
  /\ (pc \notin {"start", "done"} /\ html) =>
       view = ViewOf(req, Params(req).path)

\* the second request has run to its response while the first one, of
\* another view, waits for upstream
C20_Witness ==
  /\ active = 2
  /\ Done /\ view = "source" /\ resp.type = "render"
  /\ peer.pc = "await_page" /\ peer.view = "doc"


\* the request without the s parameter
WithoutSymbol(u) == [u EXCEPT !.s = ""]

\* C21: the s parameter is sent upstream as the symbol filter if and only
\* if it is non-empty and the view is Doc; in the Source and Info views the
\* upstream call carries no symbol filter and is the call of the request
\* without the parameter, and the response is the response of that request
\* (a redirect built from the request URL keeps the parameter in its
\* Location, as it keeps the rest of the query).
C21_SymbolFilter ==
  (html /\ Routed /\ pc # "start") =>
    /\ calls[1].symbol # "" <=> (req.s # "" /\ view = "doc")
    /\ calls[1].symbol # "" => calls[1].symbol = req.s
    /\ view \in {"source", "info"} =>
         /\ calls[1].symbol = ""
         /\ calls[1] =
              Call("page", ViewOf(WithoutSymbol(req), Params(req).path),
                   [Params(req) EXCEPT
                      !.version = IF @ = "" THEN "__latest__" ELSE @],
                   "")
         /\ Done =>
              [resp EXCEPT !.loc.s = ""] \in Alone(WithoutSymbol(req), html, res)
         /\ resp.type = "redirect" => resp.loc.s \in {"", req.s}

C21_Witness ==
  /\ Done /\ html
  /\ req.s = "sym" /\ view = "source"
  /\ calls[1].symbol = ""
  /\ resp.type = "render" /\ resp.page = "file"

C21_WitnessDoc ==
  /\ Done /\ html
  /\ req.s = "sym" /\ view = "doc"
  /\ calls[1].symbol = "sym"
  /\ resp.type = "render"

====
